---- MODULE Spec2Model ----
(***************************************************************************)
(* A model of extract-snippets: the single-file extractor                  *)
(* (src/extract-snippets.py) and the tree scanner                          *)
(* (src/extract_snippets/get_snippets_from_tags.py).                       *)
(*                                                                         *)
(* Text is modelled as sequences of symbols.  A symbol is one character,   *)
(* or, in the tree scanner, one whole marker occurrence such as            *)
(* "{{b:A:begin}}" (the text TAG_REGEX matches).  A line read from a file  *)
(* is its content followed by the "\n" symbol, as Python's file iteration  *)
(* yields it.                                                              *)
(***************************************************************************)
EXTENDS Integers, Sequences, FiniteSets, TLC

VARIABLES
    pc,            \* position of the running program
    infile,        \* the lines of the opened source file (content, no "\n")
    after_string,  \* args.after_string
    before_string, \* args.before_string
    start_line,    \* args.start_line
    end_line,      \* args.end_line
    latex_env,     \* args.latex_env (an optional string)
    dedent,        \* args.dedent
    extracted,     \* the lines an extractor returned
    raised,        \* the exception that ended the call, or "none"
    outfile,       \* the chunks written to the output file, one per write()
    paths,         \* the (root, name) pairs handed to write_json
    json_names,    \* the manifest filenames write_json derived for them
    args,          \* the tree scanner's flags: json, minted, literalinclude
    outdir_exists, \* os.path.exists(args.outdir)
    outdir_files,  \* the files written into outdir: filename -> content
    tree,          \* the (root, name) pairs os.walk yields, in its order
    walk_pos,      \* the position of the walk in tree
    opened,        \* the source paths opened for reading so far
    source,        \* the lines of the source file being processed
    snips,         \* process_file's result for it: tag -> matches
    printed        \* the diagnostics printed so far

cliVars == <<infile, after_string, before_string, start_line, end_line,
             latex_env, dedent, extracted, outfile>>

pathVars == <<paths, json_names>>

scanVars == <<args, outdir_exists, outdir_files, tree, walk_pos, opened,
              source, snips, printed>>

vars == <<pc, raised, cliVars, pathVars, scanVars>>

(***************************************************************************)
(* Bounds                                                                  *)
(***************************************************************************)
MaxLines == 4
MaxRangeLines == 6
MaxRenderLines == 3
MaxDedent == 2

(***************************************************************************)
(* Strings                                                                 *)
(***************************************************************************)
NL == "\n"

Whitespace == {" ", "\t", NL}

Min(S) == CHOOSE x \in S : \A y \in S : x <= y

Max(S) == CHOOSE x \in S : \A y \in S : x >= y

\* str.rstrip(): the string without its trailing whitespace
rstrip(s) ==
    LET keep == {i \in 1..Len(s) : s[i] \notin Whitespace}
    IN  IF keep = {} THEN <<>> ELSE SubSeq(s, 1, Max(keep))

\* str.find(ss): the lowest 0-based index at which ss occurs in text, or -1
find(text, ss) ==
    LET at == {i \in 0..(Len(text) - Len(ss)) :
                  SubSeq(text, i + 1, i + Len(ss)) = ss}
    IN  IF at = {} THEN -1 ELSE Min(at)

find_wrapper(text, ss) == find(text, ss)

\* itertools.dropwhile(predicate, s), drop[i] being predicate(s[i])
dropwhile(drop, s) ==
    LET stop == {i \in 1..Len(s) : ~drop[i]}
    IN  IF stop = {} THEN <<>> ELSE SubSeq(s, Min(stop), Len(s))

\* itertools.takewhile(predicate, s), take[i] being predicate(s[i])
takewhile(take, s) ==
    LET stop == {i \in 1..Len(s) : ~take[i]}
    IN  IF stop = {} THEN s ELSE SubSeq(s, 1, Min(stop) - 1)

\* lambda text : text.find(ss) < 0, on every element of s
lacks(s, ss) == [i \in 1..Len(s) |-> find(s[i], ss) < 0]

\* lambda text : find_wrapper(text, ss) < 0, on every element of s
lacks_wrapped(s, ss) == [i \in 1..Len(s) |-> find_wrapper(s[i], ss) < 0]

\* iterating an open text file: every line ends with its "\n"
readlines(file) == [i \in 1..Len(file) |-> file[i] \o <<NL>>]

\* the sequences over S of length at most n
SeqUpTo(S, n) == UNION {[1..k -> S] : k \in 0..n}

(***************************************************************************)
(* extract-snippets.py: the extractors                                     *)
(***************************************************************************)
\* a variant of extract_delimiters_simple that forgets next(rest), and so
\* starts with the line holding the start string
extract_delimiters_keeps_start(file, after, before) ==
    LET data == [i \in 1..Len(file) |-> rstrip(readlines(file)[i])]
        rest == dropwhile(lacks(data, after), data)
    IN  IF rest = <<>>
        THEN [exc |-> "StopIteration", lines |-> <<>>]
        ELSE [exc |-> "none",
              lines |-> takewhile(lacks_wrapped(rest, before), rest)]

\* extract_delimiters_simple(args, infile) of the single-file extractor
extract_delimiters_simple(file, after, before) ==
    LET data == [i \in 1..Len(file) |-> rstrip(readlines(file)[i])]
        rest == dropwhile(lacks(data, after), data)
    IN  IF rest = <<>>
        THEN [exc |-> "StopIteration", lines |-> <<>>]   \* next(rest)
        ELSE [exc |-> "none",
              lines |-> takewhile(lacks_wrapped(Tail(rest), before), Tail(rest))]

\* extract_delimiters_simple(infile, after_string, before_string) of the
\* tree scanner: as above, with the leading blank lines dropped first
extract_delimiters_tags(file, after, before) ==
    LET data  == [i \in 1..Len(file) |-> rstrip(readlines(file)[i])]
        data2 == dropwhile([i \in 1..Len(data) |-> Len(data[i]) = 0], data)
        rest  == dropwhile(lacks(data2, after), data2)
    IN  IF rest = <<>>
        THEN [exc |-> "StopIteration", lines |-> <<>>]   \* next(rest)
        ELSE [exc |-> "none",
              lines |-> takewhile(lacks_wrapped(Tail(rest), before), Tail(rest))]

\* numbered_reader: LineInfo(number, text) for every line, numbered from 1
numbered_reader(file) ==
    [i \in 1..Len(file) |-> [number |-> i, text |-> rstrip(readlines(file)[i])]]

\* extract_line_range(args, infile)
extract_line_range(file, s, e) ==
    LET reader == numbered_reader(file)
        rest == dropwhile([i \in 1..Len(reader) |-> reader[i].number < s], reader)
        taken == takewhile([i \in 1..Len(rest) |-> rest[i].number < e], rest)
    IN  [i \in 1..Len(taken) |-> taken[i].text]

(***************************************************************************)
(* extract-snippets.py: render                                             *)
(***************************************************************************)
\* an optional string: Python's None, or a string (which may be empty)
None == [some |-> FALSE, val |-> <<>>]

Some(s) == [some |-> TRUE, val |-> s]

\* Python's truth value of an optional string: None and "" are false
truthy(opt) == opt.some /\ opt.val # <<>>

\* get_header(args): falls off the end, returning None, without latex_env
get_header(env) ==
    IF truthy(env) THEN Some(<<"\\begin{">> \o env.val \o <<"}">>) ELSE None

\* render_footer(args)
render_footer(env) ==
    IF truthy(env) THEN Some(<<"\\end{">> \o env.val \o <<"}">>) ELSE None

\* line[args.dedent:]
chop(line, n) == IF n >= Len(line) THEN <<>> ELSE SubSeq(line, n + 1, Len(line))

\* render(args, extracted, outfile): the writes made and the exception raised.
\* None + "\n" raises TypeError before anything is written.
render(env, n, lines) ==
    IF ~get_header(env).some
    THEN [exc |-> "TypeError", written |-> <<>>]
    ELSE LET head == <<get_header(env).val \o <<NL>>>>
             body == [i \in 1..Len(lines) |-> chop(lines[i], n) \o <<NL>>]
         IN  IF ~render_footer(env).some
             THEN [exc |-> "TypeError", written |-> head \o body]
             ELSE [exc |-> "none",
                   written |-> head \o body \o <<render_footer(env).val \o <<NL>>>>]

(***************************************************************************)
(* The parts of the state a program does not use stay as they start        *)
(***************************************************************************)
EmptyFn == [x \in {} |-> x]

CliIdle ==
    /\ infile = <<>> /\ after_string = <<>> /\ before_string = <<>>
    /\ start_line = 0 /\ end_line = 0
    /\ latex_env = None /\ dedent = 0
    /\ extracted = <<>> /\ outfile = <<>>

PathIdle == paths = <<>> /\ json_names = <<>>

ScanIdle ==
    /\ args = [json |-> FALSE, minted |-> FALSE, literalinclude |-> FALSE]
    /\ outdir_exists = FALSE /\ outdir_files = EmptyFn
    /\ tree = <<>> /\ walk_pos = 0 /\ opened = {}
    /\ source = <<>> /\ snips = EmptyFn /\ printed = {}

(***************************************************************************)
(* The inputs of the single-file extractor                                 *)
(***************************************************************************)
\* line contents for the delimiter extractor: blank, whitespace only, a line
\* with the start marker (with and without trailing whitespace), a line with
\* the end marker, a line with both, plain lines
LinePool ==
    { <<>>, <<" ">>, <<"S">>, <<"S", " ">>, <<"S", " ", "x">>,
      <<"x", "E", " ">>, <<"S", "E">>, <<"x">> }

AfterStrings == { <<>>, <<"S">>, <<"S", " ">> }

BeforeStrings == { <<"E">>, <<"S">> }

RangePool == { <<"x">>, <<"y", " ">> }

RenderPool == { <<>>, <<" ", "a">>, <<" ", " ", "b">>, <<"c">> }

Envs == { None, Some(<<>>), Some(<<"E">>) }

\* the text of a marker TAG_REGEX matched: not empty, no whitespace in it
IsMatchText(s) == s # <<>> /\ \A i \in 1..Len(s) : s[i] \notin Whitespace

(***************************************************************************)
(* Delimiter extraction: both extract_delimiters_simple functions          *)
(***************************************************************************)
InitDelim ==
    /\ pc = "delimiters"
    /\ infile \in SeqUpTo(LinePool, MaxLines)
    /\ after_string \in AfterStrings
    /\ before_string \in BeforeStrings
    /\ start_line = 0 /\ end_line = 0
    /\ latex_env = None /\ dedent = 0
    /\ extracted = <<>> /\ raised = "none" /\ outfile = <<>>
    /\ PathIdle /\ ScanIdle

\* main() of extract-snippets.py calling extract(args, infile) for the
\* 'delimiters' subcommand: the strings are whatever the command line gave
ExtractDelimitersSimple ==
    /\ pc = "delimiters"
    /\ LET r == extract_delimiters_simple(infile, after_string, before_string)
       IN  /\ extracted' = r.lines
           /\ raised' = r.exc
    /\ pc' = "extracted_cli"
    /\ UNCHANGED <<infile, after_string, before_string, start_line, end_line,
                   latex_env, dedent, outfile,
                   pathVars, scanVars>>

\* write_minted_snippets calling the tree scanner's extract_delimiters_simple:
\* the strings are the match_text of two markers
ExtractDelimitersTags ==
    /\ pc = "delimiters"
    /\ IsMatchText(after_string) /\ IsMatchText(before_string)
    /\ LET r == extract_delimiters_tags(infile, after_string, before_string)
       IN  /\ extracted' = r.lines
           /\ raised' = r.exc
    /\ pc' = "extracted_tags"
    /\ UNCHANGED <<infile, after_string, before_string, start_line, end_line,
                   latex_env, dedent, outfile,
                   pathVars, scanVars>>

NextDelim == ExtractDelimitersSimple \/ ExtractDelimitersTags

SpecDelim == InitDelim /\ [][NextDelim]_vars

(***************************************************************************)
(* Line-range extraction                                                   *)
(***************************************************************************)
InitLines ==
    /\ pc = "lines"
    /\ infile \in SeqUpTo(RangePool, MaxRangeLines)
    /\ start_line \in 0..(MaxRangeLines + 1)
    /\ end_line \in 0..(MaxRangeLines + 1)
    /\ after_string = <<>> /\ before_string = <<>>
    /\ latex_env = None /\ dedent = 0
    /\ extracted = <<>> /\ raised = "none" /\ outfile = <<>>
    /\ PathIdle /\ ScanIdle

ExtractLineRange ==
    /\ pc = "lines"
    /\ extracted' = extract_line_range(infile, start_line, end_line)
    /\ pc' = "extracted_lines"
    /\ UNCHANGED <<infile, after_string, before_string, start_line, end_line,
                   latex_env, dedent, raised, outfile,
                   pathVars, scanVars>>

NextLines == ExtractLineRange

SpecLines == InitLines /\ [][NextLines]_vars

(***************************************************************************)
(* Rendering                                                               *)
(***************************************************************************)
InitRender ==
    /\ pc = "render"
    /\ extracted \in SeqUpTo(RenderPool, MaxRenderLines)
    /\ latex_env \in Envs
    /\ dedent \in 0..MaxDedent
    /\ infile = <<>> /\ after_string = <<>> /\ before_string = <<>>
    /\ start_line = 0 /\ end_line = 0
    /\ raised = "none" /\ outfile = <<>>
    /\ PathIdle /\ ScanIdle

Render ==
    /\ pc = "render"
    /\ LET r == render(latex_env, dedent, extracted)
       IN  /\ outfile' = r.written
           /\ raised' = r.exc
    /\ pc' = "rendered"
    /\ UNCHANGED <<infile, after_string, before_string, start_line, end_line,
                   latex_env, dedent, extracted,
                   pathVars, scanVars>>

NextRender == Render

SpecRender == InitRender /\ [][NextRender]_vars

(***************************************************************************)
(* get_snippets_from_tags.py: manifest filenames                           *)
(***************************************************************************)
\* str.replace(old, new) for a non-empty old: every non-overlapping
\* occurrence, left to right
RECURSIVE replace(_, _, _)
replace(s, old, new) ==
    IF Len(s) < Len(old) THEN s
    ELSE IF SubSeq(s, 1, Len(old)) = old
         THEN new \o replace(SubSeq(s, Len(old) + 1, Len(s)), old, new)
         ELSE <<Head(s)>> \o replace(Tail(s), old, new)

\* os.path.join(a, b) on POSIX
join(a, b) ==
    IF b # <<>> /\ Head(b) = "/" THEN b
    ELSE IF a = <<>> \/ a[Len(a)] = "/" THEN a \o b
    ELSE a \o <<"/">> \o b

depathify(path) ==
    LET s1 == replace(path, <<".", ".", "/">>, <<>>)
        s2 == replace(s1, <<".", "/">>, <<>>)
        s3 == replace(s2, <<"_">>, <<"-">>)
    IN  replace(s3, <<"/">>, <<"-">>)

\* write_json: json_filename = depathify(os.path.join(root, basename)) + '.json'
json_filename(root, basename) == depathify(join(root, basename)) \o <<".json">>

\* --dir, the directories os.walk finds under it (<<>>: the base directory
\* itself) and the file names in them
BaseDirs == { <<".">>, <<".", ".">>, <<"s">> }

SubDirs == { <<>>, <<"a">>, <<"a", "_", "b">> }

Names ==
    { <<"b", ".", "c">>, <<"a", "_", "b", ".", "c">>,
      <<"a", "-", "b", ".", "c">>, <<"_", "b", ".", "c">> }

\* the root os.walk(basedir) reports for a directory: basedir itself, or
\* os.path.join(basedir, d) for a directory d under it
walk_root(basedir, d) == IF d = <<>> THEN basedir ELSE join(basedir, d)

\* two distinct files of one walk of basedir
InitPath ==
    /\ pc = "write_json"
    /\ \E basedir \in BaseDirs : \E d1, d2 \in SubDirs : \E n1, n2 \in Names :
          /\ <<d1, n1>> # <<d2, n2>>
          /\ paths = << [root |-> walk_root(basedir, d1), name |-> n1],
                        [root |-> walk_root(basedir, d2), name |-> n2] >>
    /\ json_names = <<>>
    /\ raised = "none"
    /\ CliIdle /\ ScanIdle

JsonNames ==
    /\ pc = "write_json"
    /\ json_names' = [i \in 1..Len(paths) |->
                         json_filename(paths[i].root, paths[i].name)]
    /\ pc' = "named"
    /\ UNCHANGED <<paths, raised, cliVars, scanVars>>

NextPath == JsonNames

SpecPath == InitPath /\ [][NextPath]_vars

(***************************************************************************)
(* get_snippets_from_tags.py: the Tag Matcher                              *)
(***************************************************************************)
\* the marker occurrences of the model: each is one symbol of a line, the
\* whole text TAG_REGEX matches
MarkerSyms ==
    { "{{b:A:begin}}", "{{b:A:end}}", "{{b:B:begin}}", "{{b:B:end}}",
      "{{c:A:end}}" }

\* result.groupdict(): the named groups of TAG_REGEX
groupdict(sym) ==
    CASE sym = "{{b:A:begin}}" -> [book |-> <<"b">>, tag |-> <<"A">>, marker |-> "begin"]
      [] sym = "{{b:A:end}}"   -> [book |-> <<"b">>, tag |-> <<"A">>, marker |-> "end"]
      [] sym = "{{b:B:begin}}" -> [book |-> <<"b">>, tag |-> <<"B">>, marker |-> "begin"]
      [] sym = "{{b:B:end}}"   -> [book |-> <<"b">>, tag |-> <<"B">>, marker |-> "end"]
      [] sym = "{{c:A:end}}"   -> [book |-> <<"c">>, tag |-> <<"A">>, marker |-> "end"]

\* the text between the outer braces of a match: text[start+2:end-2]
fq_tag(sym) ==
    CASE sym = "{{b:A:begin}}" -> "b:A:begin"
      [] sym = "{{b:A:end}}"   -> "b:A:end"
      [] sym = "{{b:B:begin}}" -> "b:B:begin"
      [] sym = "{{b:B:end}}"   -> "b:B:end"
      [] sym = "{{c:A:end}}"   -> "c:A:end"

\* snip_regex.search(text): the position of the first match in the line
\* (1-based here), or 0 for no match
search(text) ==
    LET at == {i \in 1..Len(text) : text[i] \in MarkerSyms}
    IN  IF at = {} THEN 0 ELSE Min(at)

(***************************************************************************)
(* get_snippets_from_tags.py: process_file                                 *)
(***************************************************************************)
\* line_reader: LineInfo(number, text) for every line, numbered from 1
line_reader(file) ==
    [i \in 1..Len(file) |-> [number |-> i, text |-> readlines(file)[i]]]

\* the dictionary process_file builds for a line with a match at position at.
\* Offsets count symbols, a marker being one symbol.
match_doc(root, name, extension, line_info, at) ==
    LET g == groupdict(line_info.text[at])
    IN  [path |-> join(root, name), root |-> root, name |-> name,
         language |-> Tail(extension),
         line |-> line_info.number + 1,
         text |-> line_info.text,
         match_text |-> <<line_info.text[at]>>,
         match_start |-> at - 1,
         match_end |-> at,
         fq_tag |-> fq_tag(line_info.text[at]),
         book |-> g.book, tag |-> g.tag, marker |-> g.marker]

\* the first loop of process_file: a dictionary for every line with a match
scan_results(root, name, extension, file) ==
    LET reader == line_reader(file)
        hits == SelectSeq(reader, LAMBDA line_info : search(line_info.text) # 0)
    IN  [k \in 1..Len(hits) |->
            match_doc(root, name, extension, hits[k], search(hits[k].text))]

\* itertools.groupby(results, key=tag): the maximal runs of consecutive
\* elements with equal tags, in order (the input is not sorted by tag)
groupby(results) ==
    LET starts == {i \in 1..Len(results) :
                      i = 1 \/ results[i].tag # results[i - 1].tag}
        stop(i) == IF \E j \in starts : j > i
                   THEN Min({j \in starts : j > i}) - 1
                   ELSE Len(results)
        nth(k) == CHOOSE i \in starts : Cardinality({j \in starts : j < i}) = k - 1
    IN  [k \in 1..Cardinality(starts) |-> SubSeq(results, nth(k), stop(nth(k)))]

\* group_values.sort(key=line): the line numbers of a file's matches differ
sort_by_line(values) ==
    LET elems == {values[i] : i \in 1..Len(values)}
    IN  [k \in 1..Len(values) |->
            CHOOSE v \in elems : Cardinality({w \in elems : w.line < v.line}) = k - 1]

\* len(markers) != 2 for the set of the group's marker values
mismatched(group) == Cardinality({group[i].marker : i \in 1..Len(group)}) # 2

\* the second loop of process_file: groups[group_name] = group_values for the
\* runs that pass, a later run of a tag replacing an earlier one
collect_groups(results) ==
    LET runs == groupby(results)
        kept == {k \in 1..Len(runs) : ~mismatched(sort_by_line(runs[k]))}
        names == {runs[k][1].tag : k \in kept}
        last(t) == Max({k \in kept : runs[k][1].tag = t})
    IN  [t \in names |-> sort_by_line(runs[last(t)])]

\* the "Tag ... has mismatched or missing begin/end marker" lines printed
mismatch_messages(results) ==
    LET runs == groupby(results)
    IN  {[msg |-> "mismatched", tag |-> runs[k][1].tag] :
            k \in {j \in 1..Len(runs) : mismatched(sort_by_line(runs[j]))}}

process_file(root, name, extension, file) ==
    collect_groups(scan_results(root, name, extension, file))

(***************************************************************************)
(* get_snippets_from_tags.py: write_minted_snippets                        *)
(***************************************************************************)
get_minted_env(extension) ==
    LET env == CASE extension = <<"c">> -> "ccode"
                 [] extension = <<"c", "c">> -> "cppcode"
                 [] extension = <<"c", "p", "p">> -> "cppcode"
                 [] extension = <<"c", "+", "+">> -> "cppcode"
                 [] extension = <<"p", "y">> -> "pycode"
                 [] extension = <<"h">> -> "ccode"
                 [] extension = <<"h", "h">> -> "ccode"
                 [] OTHER -> "unknownlanguage"
    IN  <<env, "*">>

\* '\n'.join(lines) + '\n'
RECURSIVE join_lines(_)
join_lines(lines) ==
    IF lines = <<>> THEN <<NL>>
    ELSE IF Len(lines) = 1 THEN lines[1] \o <<NL>>
    ELSE lines[1] \o <<NL>> \o join_lines(Tail(lines))

\* (begin, end) = groups[group][:2] passes the check of write_minted_snippets
is_pair(group) == group[1].marker = "begin" /\ group[2].marker = "end"

snip_filename(group) ==
    <<"snip-">> \o group[1].book \o <<"-">>
        \o replace(group[1].tag, <<"_">>, <<"-">>) \o <<".tex">>

\* what write_minted_snippets writes for one group, from the lines the source
\* file holds when it is opened again
minted_fragment(group, file) ==
    LET ex == extract_delimiters_tags(file, group[1].match_text, group[2].match_text)
        minted_env == get_minted_env(group[1].language)
    IN  [exc |-> ex.exc,
         begin |-> [env |-> minted_env, firstnumber |-> group[1].line],
         body |-> join_lines(ex.lines),
         end |-> [env |-> minted_env]]

(***************************************************************************)
(* get_snippets_from_tags.py: process_dir                                  *)
(***************************************************************************)
\* os.path.splitext(name)[1]: from the last dot, unless only dots precede it
splitext(name) ==
    LET dots == {i \in 1..Len(name) : name[i] = "."}
    IN  IF dots = {} \/ (\A j \in 1..(Max(dots) - 1) : name[j] = ".")
        THEN <<>>
        ELSE SubSeq(name, Max(dots), Len(name))

\* set(["." + extension for extension in args.extensions.split(",")]) for the
\* default of --extensions, "c,h,cc,hh,cpp,py"
extensions ==
    { <<".", "c">>, <<".", "h">>, <<".", "c", "c">>, <<".", "h", "h">>,
      <<".", "c", "p", "p">>, <<".", "p", "y">> }

Put(f, k, v) == [x \in (DOMAIN f) \cup {k} |-> IF x = k THEN v ELSE f[x]]

Message(m, w) == [msg |-> m, what |-> w]

\* the lines a source file may hold
FilePool ==
    { <<>>, <<"x">>, <<"#", "{{b:A:begin}}">>, <<"{{b:A:end}}">>,
      <<"{{b:B:begin}}">>, <<"{{b:B:end}}">>, <<"{{c:A:end}}">>,
      <<"{{b:B:begin}}", "{{b:A:begin}}">> }

TreePool ==
    { <<"x">>, <<"#", "{{b:A:begin}}">>, <<"{{b:A:end}}">>, <<"{{b:B:begin}}">> }

MaxTreeLines == 3

\* os.walk(".", topdown=False) of a directory with one source file and one
\* other file
OneFileTree ==
    << [root |-> <<".">>, name |-> <<"f", ".", "p", "y">>],
       [root |-> <<".">>, name |-> <<"n", ".", "t", "x", "t">>] >>

\* os.walk(".", topdown=False): the subdirectory d first, then the base
TwoFileTree ==
    << [root |-> <<".", "/", "d">>, name |-> <<"g", ".", "c">>],
       [root |-> <<".">>, name |-> <<"f", ".", "p", "y">>],
       [root |-> <<".">>, name |-> <<"n", ".", "t", "x", "t">>] >>

InitScan(walk) ==
    /\ pc = "process_dir"
    /\ args \in [json : BOOLEAN, minted : BOOLEAN, literalinclude : BOOLEAN]
    /\ outdir_exists \in BOOLEAN
    /\ outdir_files = EmptyFn
    /\ tree = walk
    /\ walk_pos = 0 /\ opened = {}
    /\ source = <<>> /\ snips = EmptyFn /\ printed = {}
    /\ raised = "none"
    /\ CliIdle /\ PathIdle

\* a variant of ProcessDirStart without the test of os.path.exists(outdir)
ProcessDirStartUnchecked ==
    /\ pc = "process_dir"
    /\ pc' = "walk"
    /\ walk_pos' = 1
    /\ UNCHANGED <<raised, cliVars, pathVars, args, outdir_exists, outdir_files,
                   tree, opened, source, snips, printed>>

\* process_dir up to its loop: refuse to run when outdir does not exist
ProcessDirStart ==
    /\ pc = "process_dir"
    /\ IF ~outdir_exists
       THEN /\ printed' = printed \cup {Message("outdir must exist", <<>>)}
            /\ pc' = "done"
            /\ UNCHANGED walk_pos
       ELSE /\ pc' = "walk"
            /\ walk_pos' = 1
            /\ UNCHANGED printed
    /\ UNCHANGED <<raised, cliVars, pathVars, args, outdir_exists, outdir_files,
                   tree, opened, source, snips>>

\* a file whose extension is not in extensions
SkipFile ==
    /\ pc = "walk" /\ walk_pos <= Len(tree)
    /\ splitext(tree[walk_pos].name) \notin extensions
    /\ walk_pos' = walk_pos + 1
    /\ UNCHANGED <<pc, raised, cliVars, pathVars, args, outdir_exists,
                   outdir_files, tree, opened, source, snips, printed>>

\* snips = process_file(root, name, extension, snip_regex), the file holding
\* any lines of pool, at most n of them
ProcessFile(pool, n) ==
    /\ pc = "walk" /\ walk_pos <= Len(tree)
    /\ LET root == tree[walk_pos].root
           name == tree[walk_pos].name
           extension == splitext(name)
       IN  /\ extension \in extensions
           /\ \E file \in SeqUpTo(pool, n) :
                 /\ source' = file
                 /\ snips' = process_file(root, name, extension, file)
                 /\ printed' = printed \cup
                       mismatch_messages(scan_results(root, name, extension, file))
           /\ opened' = opened \cup {join(root, name)}
    /\ pc' = "json"
    /\ UNCHANGED <<raised, cliVars, pathVars, args, outdir_exists, outdir_files,
                   tree, walk_pos>>

\* if args.json and len(snips) > 0: write_json(outdir, root, name, snips)
WriteJson ==
    /\ pc = "json"
    /\ IF args.json /\ DOMAIN snips # {}
       THEN LET json_name == json_filename(tree[walk_pos].root, tree[walk_pos].name)
            IN  /\ printed' = printed \cup {Message("Writing output to", json_name)}
                /\ outdir_files' = Put(outdir_files, json_name, snips)
       ELSE UNCHANGED <<printed, outdir_files>>
    /\ pc' = "minted"
    /\ UNCHANGED <<raised, cliVars, pathVars, args, outdir_exists, tree, walk_pos,
                   opened, source, snips>>

\* if args.minted: write_minted_snippets(args, snips).  The groups of one
\* file have different tags, so their fragments have different names.
WriteMinted ==
    /\ pc = "minted"
    /\ IF args.minted
       THEN LET pairs == {t \in DOMAIN snips : is_pair(snips[t])}
                frag(t) == minted_fragment(snips[t], source)
                named(f) == CHOOSE t \in pairs : snip_filename(snips[t]) = f
                files == {snip_filename(snips[t]) : t \in pairs}
            IN  /\ printed' = printed \cup
                      {Message("Invalid group", t) : t \in (DOMAIN snips) \ pairs}
                /\ opened' = opened \cup {snips[t][1].path : t \in pairs}
                /\ IF \E t \in pairs : frag(t).exc # "none"
                   THEN /\ raised' = "StopIteration"
                        /\ pc' = "done"
                        /\ UNCHANGED outdir_files
                   ELSE /\ outdir_files' =
                             [f \in (DOMAIN outdir_files) \cup files |->
                                 IF f \in files
                                 THEN [begin |-> frag(named(f)).begin,
                                       body |-> frag(named(f)).body,
                                       end |-> frag(named(f)).end]
                                 ELSE outdir_files[f]]
                        /\ pc' = "next"
                        /\ UNCHANGED raised
       ELSE /\ pc' = "next"
            /\ UNCHANGED <<printed, opened, outdir_files, raised>>
    /\ UNCHANGED <<cliVars, pathVars, args, outdir_exists, tree, walk_pos,
                   source, snips>>

\* the loop of process_dir goes on to the next file
WalkNext ==
    /\ pc = "next"
    /\ walk_pos' = walk_pos + 1
    /\ source' = <<>> /\ snips' = EmptyFn
    /\ pc' = "walk"
    /\ UNCHANGED <<raised, cliVars, pathVars, args, outdir_exists, outdir_files,
                   tree, opened, printed>>

\* os.walk is exhausted: process_dir returns
WalkDone ==
    /\ pc = "walk" /\ walk_pos > Len(tree)
    /\ pc' = "done"
    /\ UNCHANGED <<raised, cliVars, pathVars, scanVars>>

\* one source file with up to MaxLines lines
InitFile == InitScan(OneFileTree)

NextFile ==
    \/ ProcessDirStart
    \/ SkipFile
    \/ ProcessFile(FilePool, MaxLines)
    \/ WriteJson
    \/ WriteMinted
    \/ WalkNext
    \/ WalkDone

SpecFile == InitFile /\ [][NextFile]_vars

\* a tree with two source files of up to MaxTreeLines lines
Init == InitScan(TwoFileTree)

Next ==
    \/ ProcessDirStart
    \/ SkipFile
    \/ ProcessFile(TreePool, MaxTreeLines)
    \/ WriteJson
    \/ WriteMinted
    \/ WalkNext
    \/ WalkDone

Spec == Init /\ [][Next]_vars

(***************************************************************************)
(* The vocabulary of the properties                                        *)
(***************************************************************************)
\* ss occurs in text
Contains(text, ss) ==
    \E i \in 0..(Len(text) - Len(ss)) : SubSeq(text, i + 1, i + Len(ss)) = ss

\* the lines of a file, each without its trailing whitespace
Stripped(file) == [i \in 1..Len(file) |-> rstrip(file[i])]

AllTags == { <<"A">>, <<"B">> }

\* the marker the Tag Matcher finds on line i of a file
MarkerOf(file, i) == groupdict(file[i][search(file[i])])

\* the lines of a file on which the Tag Matcher finds a marker of tag t
TagLines(file, t) ==
    {i \in 1..Len(file) : search(file[i]) # 0 /\ MarkerOf(file, i).tag = t}

\* the markers of tag t are one begin line followed later by one end line of
\* the same book
WellFormedAt(file, t, b, e) ==
    /\ TagLines(file, t) = {b, e} /\ b < e
    /\ MarkerOf(file, b).marker = "begin" /\ MarkerOf(file, e).marker = "end"
    /\ MarkerOf(file, b).book = MarkerOf(file, e).book

WellFormed(file, t) ==
    \E b, e \in TagLines(file, t) : WellFormedAt(file, t, b, e)

Malformed(file, t) == TagLines(file, t) # {} /\ ~WellFormed(file, t)

CurrentRoot == tree[walk_pos].root

CurrentName == tree[walk_pos].name

\* the match process_file records for line i of the file being processed
MatchOfLine(i) ==
    match_doc(CurrentRoot, CurrentName, splitext(CurrentName),
              line_reader(source)[i], search(source[i]))

(***************************************************************************)
(* C1 to C10                                                               *)
(***************************************************************************)
\* C1: process_file maps every tag whose markers in the file are one begin
\* line followed later by one end line of the same book:tag to the pair
\* [begin match, end match], whatever other markers the file holds.
C1_WellFormedTagRetained ==
    pc = "json" =>
        \A t \in AllTags : \A b, e \in 1..Len(source) :
            WellFormedAt(source, t, b, e) =>
                /\ t \in DOMAIN snips
                /\ snips[t] = <<MatchOfLine(b), MatchOfLine(e)>>

\* C2: every group process_file retains is one begin match and one end
\* match, the begin on the smaller line.
C2_RetainedGroupsArePairs ==
    pc = "json" =>
        \A t \in DOMAIN snips :
            /\ Len(snips[t]) = 2
            /\ snips[t][1].marker = "begin" /\ snips[t][2].marker = "end"
            /\ snips[t][1].line < snips[t][2].line

\* C3: extract_line_range returns, in file order, exactly the lines whose
\* number n satisfies start_line < n < end_line.
C3_LineRangeExclusive ==
    pc = "extracted_lines" =>
        LET numbers == {n \in 1..Len(infile) : start_line < n /\ n < end_line}
        IN  /\ Len(extracted) = Cardinality(numbers)
            /\ \A k \in 1..Len(extracted) :
                  /\ start_line + k \in numbers
                  /\ extracted[k] = Stripped(infile)[start_line + k]

\* C4 as stated: when a line contains after_string and a later line contains
\* before_string, the extractor returns the lines strictly between the first
\* line containing after_string and the first later line containing
\* before_string, each without its trailing whitespace.
C4_BetweenDelimiters ==
    pc \in {"extracted_cli", "extracted_tags"} =>
        LET n == Len(infile)
            A == {i \in 1..n : Contains(infile[i], after_string)}
            B(a) == {j \in (a + 1)..n : Contains(infile[j], before_string)}
        IN  (\E i \in A : B(i) # {}) =>
                /\ raised = "none"
                /\ extracted = SubSeq(Stripped(infile), Min(A) + 1, Min(B(Min(A))) - 1)

\* C4 as amended: the same, a line containing a string when it does so once
\* its trailing whitespace is removed.
C4_BetweenStrippedDelimiters ==
    pc \in {"extracted_cli", "extracted_tags"} =>
        LET n == Len(infile)
            lines == Stripped(infile)
            A == {i \in 1..n : Contains(lines[i], after_string)}
            B(a) == {j \in (a + 1)..n : Contains(lines[j], before_string)}
        IN  (\E i \in A : B(i) # {}) =>
                /\ raised = "none"
                /\ extracted = SubSeq(lines, Min(A) + 1, Min(B(Min(A))) - 1)

\* a command-line extraction of two lines that lie after a first line and
\* between the delimiters, trailing whitespace removed from the delimiters
C4_Witness ==
    /\ pc = "extracted_cli"
    /\ after_string = <<"S">> /\ before_string = <<"E">>
    /\ Len(infile) = 4
    /\ Contains(rstrip(infile[1]), after_string) /\ infile[1] # rstrip(infile[1])
    /\ ~Contains(rstrip(infile[2]), before_string)
    /\ ~Contains(rstrip(infile[3]), before_string)
    /\ Contains(rstrip(infile[4]), before_string)
    /\ infile[2] # rstrip(infile[2])
    /\ raised = "none" /\ Len(extracted) = 2 /\ extracted[2] # <<>>

\* C5: when no line contains after_string, or none after the first that does
\* contains before_string, the extractor returns no lines and raises nothing.
C5_EmptyWithoutError ==
    pc \in {"extracted_cli", "extracted_tags"} =>
        LET n == Len(infile)
            lines == Stripped(infile)
            A == {i \in 1..n : Contains(lines[i], after_string)}
            B(a) == {j \in (a + 1)..n : Contains(lines[j], before_string)}
        IN  (A = {} \/ B(Min(A)) = {}) =>
                /\ raised = "none"
                /\ extracted = <<>>

\* C6: without a wrapping environment render completes and writes the
\* dedented lines only; with an environment it writes the begin line, the
\* dedented lines and the end line.
C6_RenderWithAndWithoutEnv ==
    pc = "rendered" =>
        LET body == [i \in 1..Len(extracted) |-> chop(extracted[i], dedent) \o <<NL>>]
        IN  /\ latex_env = None =>
                  /\ raised = "none"
                  /\ outfile = body
            /\ truthy(latex_env) =>
                  /\ raised = "none"
                  /\ outfile = << <<"\\begin{">> \o latex_env.val \o <<"}", NL>> >>
                                 \o body
                                 \o << <<"\\end{">> \o latex_env.val \o <<"}", NL>> >>

\* C7: when outdir does not exist the run prints the diagnostic and ends,
\* having opened no source file and written no file, whatever the flags.
C7_NoOutdirNoIO ==
    ~outdir_exists =>
        /\ pc \in {"process_dir", "done"}
        /\ opened = {}
        /\ outdir_files = EmptyFn
        /\ pc = "done" => Message("outdir must exist", <<>>) \in printed

\* a finished run without outdir, every flag set
C7_Witness ==
    /\ ~outdir_exists /\ pc = "done"
    /\ args.json /\ args.minted /\ args.literalinclude
    /\ Message("outdir must exist", <<>>) \in printed

\* the fragment file of a tag of a book
SnipName(book, t) == <<"snip-">> \o book \o <<"-">> \o t \o <<".tex">>

Books == { <<"b">>, <<"c">> }

ManifestName == json_filename(CurrentRoot, CurrentName)

\* the source files of the tree
SourcePaths ==
    {join(tree[i].root, tree[i].name) :
        i \in {j \in 1..Len(tree) : splitext(tree[j].name) \in extensions}}

\* C8, for the file whose emitters have just run: a malformed tag is in no
\* output and every valid tag is retained and emitted.
C8_FileOutputs ==
    \A t \in AllTags :
        /\ Malformed(source, t) =>
              /\ t \notin DOMAIN snips
              /\ ManifestName \in DOMAIN outdir_files =>
                    t \notin DOMAIN outdir_files[ManifestName]
              /\ \A book \in Books :
                    SnipName(book, t) \in DOMAIN outdir_files' =>
                        /\ SnipName(book, t) \in DOMAIN outdir_files
                        /\ outdir_files'[SnipName(book, t)] =
                               outdir_files[SnipName(book, t)]
        /\ WellFormed(source, t) =>
              /\ t \in DOMAIN snips
              /\ args.json =>
                    /\ ManifestName \in DOMAIN outdir_files
                    /\ t \in DOMAIN outdir_files[ManifestName]
              /\ args.minted =>
                    \E book \in Books : SnipName(book, t) \in DOMAIN outdir_files'

\* C8: a malformed tag is rejected without aborting the run: it is in no
\* output of its file, the valid tags of the file are retained and emitted,
\* and the run ends with every source file of the tree scanned.
C8_MalformedRejectedOthersKept ==
    [][ /\ pc = "minted" => (raised' = "none" /\ C8_FileOutputs)
        /\ (pc' = "done" /\ outdir_exists) => opened' = SourcePaths ]_vars

\* C9: no manifest filename holds a path separator, and two distinct source
\* files of a run get distinct manifest filenames.
C9_FlatAndDistinct ==
    pc = "named" =>
        /\ \A i \in 1..Len(json_names) : ~Contains(json_names[i], <<"/">>)
        /\ json_names[1] # json_names[2]

\* C10: the firstnumber of every fragment written is the number of the line
\* after the line the extractor takes for the begin marker line, and the
\* lines written are those strictly between the tag's begin marker line and
\* its end marker line.
C10_FirstNumberMatchesLines ==
    (pc = "next" /\ args.minted) =>
        \A t \in DOMAIN snips :
            is_pair(snips[t]) =>
                LET fragment == outdir_files[snip_filename(snips[t])]
                    lines == Stripped(source)
                    after == Min({i \in 1..Len(source) :
                                     Contains(lines[i], snips[t][1].match_text)})
                    b == CHOOSE i \in 1..Len(source) :
                             search(source[i]) # 0 /\ MatchOfLine(i) = snips[t][1]
                    e == CHOOSE i \in 1..Len(source) :
                             search(source[i]) # 0 /\ MatchOfLine(i) = snips[t][2]
                IN  /\ fragment.begin.firstnumber = after + 1
                    /\ fragment.body = join_lines(SubSeq(lines, b + 1, e - 1))

====
